---- MODULE Spec2Model ----
(***************************************************************************)
(* The bounded in-process cache of go-cache-api: a key map plus a recency  *)
(* ordering, with LRU eviction and lazily detected expiration.             *)
(*                                                                         *)
(* The repository holds the cache twice: cache.go (and the copy without a  *)
(* context argument) orders entries with container/list; the third copy    *)
(* orders them with a hand-written doubly linked list (pushFront,          *)
(* moveToFront, remove, back).  The variable impl selects the variant, so  *)
(* every property below is checked against both.                           *)
(*                                                                         *)
(* Every public method takes c.lock on entry and releases it by defer, so  *)
(* a whole method body is one atomic action of the sequential              *)
(* specifications (Spec, SpecLRU, SpecDemo).  The concurrent ones          *)
(* (SpecConc and after) give each goroutine its own position in the        *)
(* method: Lock, the writes to the ordering, the writes to the map,        *)
(* Unlock, return.                                                         *)
(***************************************************************************)
EXTENDS Integers, Sequences, FiniteSets

\* ---------------------------------------------------------------- bounds
NumKeys == 2
MaxCap == 1
MaxTime == 2
DemoMaxTime == 6
NumThreads == 2

\* ------------------------------------------------------ program constants
\* NewInMemoryCache(3) in main
DemoCap == 3
\* 5*time.Minute in main; one clock unit of the demonstration is a minute
FiveMinutes == 5
\* 10*time.Minute in the main with the WaitGroup
TenMinutes == 10
\* the nil pointer / nil interface value
Nil == 0
\* a pointer to a node that has been unlinked from the hand-written list
Stale == -1

Keys == 1..NumKeys
DemoKeys == 1..4
AllKeys == Keys \cup DemoKeys
Values == {10, 100}
TTLs == {-1, 0, 2}
DemoTTLs == {0, FiveMinutes}
Impls == {"container", "handwritten"}

\* the goroutines of the concurrent specifications; main is the first, and
\* the main with the WaitGroup starts three more
Threads == 1..NumThreads
Main == 1
WaitThreads == 1..4
AllThreads == Threads \cup WaitThreads
ConcValues == {10}

ErrNil == "nil"
ErrNotFound == "key not found"

VARIABLES
  impl,      \* which copy of InMemoryCache runs
  maxSize,   \* InMemoryCache.maxSize
  now,       \* the value time.Now() returns
  cache,     \* InMemoryCache.cache: key -> entry [value, ttl]
  lruList,   \* InMemoryCache.lruList of the container/list copies, front first
  hl,        \* InMemoryCache.lruList of the hand-written copy
  panicked,  \* a nil dereference has aborted the process
  last,      \* the call that ran last, with its outcome
  ref,       \* per key: the latest Set whose entry no call has removed since
  run,       \* the keys set so far, while only Sets of new keys have run
  scen,      \* how far the calls so far follow Set 1, Set 2, Set 3, Get 1, Set 4
  pc,        \* position of main in its sequence of calls
  recent,    \* reference order: the keys by their last touch, oldest first
  lock,      \* InMemoryCache.lock: the goroutine that holds it, or Nil
  th,        \* per goroutine: the call it is in and its position in it
  wg         \* the counter of main's sync.WaitGroup

vars ==
  <<impl, maxSize, now, cache, lruList, hl, panicked, last, ref, run, scen, pc,
    recent, lock, th, wg>>

\* ------------------------------------------------------------ container/list
\* list.List as the sequence of the keys of its elements, front first.
PushFront(l, key) == <<key>> \o l

Remove(l, key) == SelectSeq(l, LAMBDA x : x # key)

\* mutant: the element stays where it is
MoveToFrontStays(l, key) == l

MoveToFront(l, key) ==
  IF l # <<>> /\ Head(l) = key THEN l ELSE <<key>> \o Remove(l, key)

\* mutant: the front element is taken for the back
BackIsFront(l) == IF l = <<>> THEN Nil ELSE l[1]

Back(l) == IF l = <<>> THEN Nil ELSE l[Len(l)]

\* ------------------------------------------------------- hand-written list
\* The copy with this list does not type-check as written: its methods take
\* the *entry, compare it with the *node pointers head and tail, and follow
\* ent.prev and ent.next, fields that only a node has.  The statements are
\* modelled under the one reading that gives each of them a meaning: ent
\* stands for the node that holds ent.  A node is named by the key of its
\* entry; the node moveToFront allocates takes the place of the one it
\* unlinked.
EmptyList ==
  [head |-> Nil, tail |-> Nil, size |-> 0,
   prev |-> [k \in AllKeys |-> Nil], next |-> [k \in AllKeys |-> Nil]]

IsNode(p) == p \in AllKeys

\* mutant: the first node becomes the head but not the tail
pushFrontForgetsTail(l, ent) ==
  IF l.head = Nil
  THEN [l EXCEPT !.head = ent,
                 !.prev[ent] = Nil, !.next[ent] = Nil, !.size = @ + 1]
  ELSE [l EXCEPT !.next[ent] = l.head, !.prev[ent] = Nil,
                 !.prev[l.head] = ent, !.head = ent, !.size = @ + 1]

pushFront(l, ent) ==
  IF l.head = Nil
  THEN [l EXCEPT !.head = ent, !.tail = ent,
                 !.prev[ent] = Nil, !.next[ent] = Nil, !.size = @ + 1]
  ELSE [l EXCEPT !.next[ent] = l.head, !.prev[ent] = Nil,
                 !.prev[l.head] = ent, !.head = ent, !.size = @ + 1]

\* moveToFront dereferences a nil (or unlinked) pointer
moveToFrontPanics(l, ent) ==
  /\ ent # l.head
  /\ \/ ~IsNode(l.prev[ent])
     \/ ent # l.tail /\ ~IsNode(l.next[ent])
     \/ ~IsNode(l.head)

\* mutant: the node stays where it is
moveToFrontLeavesNode(l, ent) == l

\* mutant: the old head is not linked back to the node in front of it
moveToFrontNoBackLink(l, ent) ==
  IF ent = l.head THEN l
  ELSE LET l1 == IF ent = l.tail
                 THEN [l EXCEPT !.tail = l.prev[ent], !.next[l.prev[ent]] = Nil]
                 ELSE [l EXCEPT !.next[l.prev[ent]] = l.next[ent],
                                !.prev[l.next[ent]] = l.prev[ent]]
       IN  [l1 EXCEPT !.next[ent] = l1.head, !.prev[ent] = Nil, !.head = ent]

moveToFront(l, ent) ==
  IF ent = l.head THEN l
  ELSE LET l1 == IF ent = l.tail
                 THEN [l EXCEPT !.tail = l.prev[ent], !.next[l.prev[ent]] = Nil]
                 ELSE [l EXCEPT !.next[l.prev[ent]] = l.next[ent],
                                !.prev[l.next[ent]] = l.prev[ent]]
       IN  [l1 EXCEPT !.next[ent] = l1.head, !.prev[ent] = Nil,
                      !.prev[l1.head] = ent, !.head = ent]

removePanics(l, ent) ==
  \/ ent # l.head /\ ~IsNode(l.prev[ent])
  \/ ent # l.tail /\ ~IsNode(l.next[ent])

\* The node of ent is garbage once unlinked: pointers still held to it are
\* Stale, and its own links are forgotten.
Unlinked(l, ent) ==
  LET st(p) == IF p = ent THEN Stale ELSE p
  IN  [head |-> st(l.head), tail |-> st(l.tail), size |-> l.size,
       prev |-> [k \in AllKeys |-> IF k = ent THEN Nil ELSE st(l.prev[k])],
       next |-> [k \in AllKeys |-> IF k = ent THEN Nil ELSE st(l.next[k])]]

\* mutant: the predecessor of ent keeps its link to ent
removeLeavesPrevLink(l, ent) ==
  LET l1 == IF ent = l.head THEN [l EXCEPT !.head = l.next[ent]] ELSE l
      l2 == IF ent = l.tail
            THEN [l1 EXCEPT !.tail = l.prev[ent]]
            ELSE [l1 EXCEPT !.prev[l.next[ent]] = l.prev[ent]]
  IN  Unlinked([l2 EXCEPT !.size = @ - 1], ent)

remove(l, ent) ==
  LET l1 == IF ent = l.head
            THEN [l EXCEPT !.head = l.next[ent]]
            ELSE [l EXCEPT !.next[l.prev[ent]] = l.next[ent]]
      l2 == IF ent = l.tail
            THEN [l1 EXCEPT !.tail = l.prev[ent]]
            ELSE [l1 EXCEPT !.prev[l.next[ent]] = l.prev[ent]]
  IN  Unlinked([l2 EXCEPT !.size = @ - 1], ent)

backPanics(l) == ~IsNode(l.tail)

back(l) == l.tail

\* ------------------------------------------------------------ the cache
\* A call works on a record c: the fields of InMemoryCache it may change
\* (cache, lruList, hl) and what the call produces (err, ret, the lines it
\* prints, the key it evicted, whether it panicked).
Drop(m, key) == [k \in DOMAIN m \ {key} |-> m[k]]

Put(m, key, e) == [k \in DOMAIN m \cup {key} |-> IF k = key THEN e ELSE m[k]]

ValueOf(c, key) == IF key \in DOMAIN c.cache THEN c.cache[key].value ELSE Nil

\* no entry has been inserted yet
NotInserted == [done |-> FALSE, after |-> <<>>]

\* the new entry goes in, after the lines printed so far
Inserting(c) == [done |-> TRUE, after |-> c.out]

Entering ==
  [cache |-> cache, lruList |-> lruList, hl |-> hl, panic |-> FALSE,
   err |-> ErrNil, ret |-> Nil, evicted |-> Nil, out |-> <<>>,
   inserted |-> NotInserted]

Panic(c) == [c EXCEPT !.panic = TRUE]

\* --- cache.go (container/list)
\* mutant: the element stays in the list
removeElementFromMapOnly(c, key) ==
  [c EXCEPT !.out = Append(@, <<"Removing value", ValueOf(c, key)>>),
            !.cache = Drop(@, key)]

removeElement(c, key) ==
  [c EXCEPT !.out = Append(@, <<"Removing value", ValueOf(c, key)>>),
            !.lruList = Remove(@, key),
            !.cache = Drop(@, key)]

\* mutant: nothing is evicted
evictNothing(c) == c

\* mutant: the eviction prints nothing of its own
evictQuietly(c) ==
  LET element == Back(c.lruList)
  IN  IF element # Nil
      THEN removeElement([c EXCEPT !.evicted = element], element)
      ELSE c

evict(c) ==
  LET element == Back(c.lruList)
  IN  IF element # Nil
      THEN removeElement(
             [c EXCEPT !.out = Append(@, <<"Evicting value", ValueOf(c, element)>>),
                       !.evicted = element],
             element)
      ELSE c

\* mutant: an update refreshes the expiration but keeps the old value
SetContainerKeepsValue(c, key, value, ttl) ==
  IF key \in DOMAIN c.cache
  THEN [c EXCEPT !.lruList = MoveToFront(@, key),
                 !.cache[key].ttl = now + ttl]
  ELSE LET c1 == IF Cardinality(DOMAIN c.cache) >= maxSize THEN evict(c) ELSE c
       IN  [c1 EXCEPT !.lruList = PushFront(@, key),
                      !.cache = Put(@, key, [value |-> value, ttl |-> now + ttl])]

\* mutant: a full map evicts before the key is looked up
SetContainerEvictsFirst(c, key, value, ttl) ==
  LET c1 == IF Cardinality(DOMAIN c.cache) >= maxSize THEN evict(c) ELSE c
  IN  IF key \in DOMAIN c1.cache
      THEN [c1 EXCEPT !.lruList = MoveToFront(@, key),
                      !.cache[key] = [value |-> value, ttl |-> now + ttl]]
      ELSE [c1 EXCEPT !.lruList = PushFront(@, key),
                      !.cache = Put(@, key, [value |-> value, ttl |-> now + ttl])]

SetContainer(c, key, value, ttl) ==
  IF key \in DOMAIN c.cache
  THEN [c EXCEPT !.lruList = MoveToFront(@, key),
                 !.cache[key] = [value |-> value, ttl |-> now + ttl]]
  ELSE LET c1 == IF Cardinality(DOMAIN c.cache) >= maxSize THEN evict(c) ELSE c
       IN  [c1 EXCEPT !.lruList = PushFront(@, key),
                      !.cache = Put(@, key, [value |-> value, ttl |-> now + ttl]),
                      !.inserted = Inserting(c1)]

\* mutant: an entry is still live at the instant of its expiration
GetContainerAtBoundary(c, key) ==
  IF key \in DOMAIN c.cache
  THEN IF c.cache[key].ttl >= now
       THEN [c EXCEPT !.lruList = MoveToFront(@, key),
                      !.ret = c.cache[key].value]
       ELSE [removeElement(c, key) EXCEPT !.err = ErrNotFound]
  ELSE [c EXCEPT !.err = ErrNotFound]

\* mutant: a Get that returns the value pushes the expiration back
GetContainerExtendsTTL(c, key) ==
  IF key \in DOMAIN c.cache
  THEN IF c.cache[key].ttl > now
       THEN [c EXCEPT !.lruList = MoveToFront(@, key),
                      !.cache[key].ttl = @ + 1,
                      !.ret = c.cache[key].value]
       ELSE [removeElement(c, key) EXCEPT !.err = ErrNotFound]
  ELSE [c EXCEPT !.err = ErrNotFound]

GetContainer(c, key) ==
  IF key \in DOMAIN c.cache
  THEN IF c.cache[key].ttl > now
       THEN [c EXCEPT !.lruList = MoveToFront(@, key),
                      !.ret = c.cache[key].value]
       ELSE [removeElement(c, key) EXCEPT !.err = ErrNotFound]
  ELSE [c EXCEPT !.err = ErrNotFound]

\* mutant: deleting a key that is not in the map succeeds
DeleteContainerSilent(c, key) ==
  IF key \in DOMAIN c.cache THEN removeElement(c, key) ELSE c

\* mutant: Delete looks at the expiration as Get does
DeleteContainerChecksExpiry(c, key) ==
  IF key \in DOMAIN c.cache
  THEN IF c.cache[key].ttl > now
       THEN removeElement(c, key)
       ELSE [removeElement(c, key) EXCEPT !.err = ErrNotFound]
  ELSE [c EXCEPT !.err = ErrNotFound]

DeleteContainer(c, key) ==
  IF key \in DOMAIN c.cache
  THEN removeElement(c, key)
  ELSE [c EXCEPT !.err = ErrNotFound]

\* --- the copy with the hand-written list
\* mutant: an update keeps the old expiration
updateEntryKeepsTTL(c, ent, value, ttl) ==
  [c EXCEPT !.cache[ent].value = value]

updateEntry(c, ent, value, ttl) ==
  [c EXCEPT !.cache[ent] = [value |-> value, ttl |-> now + ttl]]

removeEntry(c, ent) ==
  IF removePanics(c.hl, ent)
  THEN Panic(c)
  ELSE [c EXCEPT !.hl = remove(@, ent), !.cache = Drop(@, ent)]

\* mutant: the eviction takes an expired entry when there is one
evictHandwrittenExpiredFirst(c) ==
  IF backPanics(c.hl)
  THEN Panic(c)
  ELSE LET dead == {k \in DOMAIN c.cache : c.cache[k].ttl <= now}
           ent == IF dead # {} THEN CHOOSE k \in dead : TRUE ELSE back(c.hl)
       IN  removeEntry(
             [c EXCEPT !.out = Append(@, <<"Evicting value", ValueOf(c, ent)>>),
                       !.evicted = ent],
             ent)

evictHandwritten(c) ==
  IF backPanics(c.hl)
  THEN Panic(c)
  ELSE LET ent == back(c.hl)
       IN  removeEntry(
             [c EXCEPT !.out = Append(@, <<"Evicting value", ValueOf(c, ent)>>),
                       !.evicted = ent],
             ent)

SetHandwritten(c, key, value, ttl) ==
  IF key \in DOMAIN c.cache
  THEN LET c1 == updateEntry(c, key, value, ttl)
       IN  IF moveToFrontPanics(c1.hl, key)
           THEN Panic(c1)
           ELSE [c1 EXCEPT !.hl = moveToFront(@, key)]
  ELSE LET c1 == IF Cardinality(DOMAIN c.cache) >= maxSize
                 THEN evictHandwritten(c) ELSE c
       IN  IF c1.panic
           THEN c1
           ELSE [c1 EXCEPT !.hl = pushFront(@, key),
                           !.cache = Put(@, key, [value |-> value, ttl |-> now + ttl]),
                           !.inserted = Inserting(c1)]

GetHandwritten(c, key) ==
  IF key \in DOMAIN c.cache
  THEN IF c.cache[key].ttl > now
       THEN IF moveToFrontPanics(c.hl, key)
            THEN Panic(c)
            ELSE [c EXCEPT !.hl = moveToFront(@, key), !.ret = c.cache[key].value]
       ELSE LET c1 == removeEntry(c, key)
            IN  IF c1.panic THEN c1 ELSE [c1 EXCEPT !.err = ErrNotFound]
  ELSE [c EXCEPT !.err = ErrNotFound]

\* mutant: a Delete that finds no key takes the back entry out
DeleteHandwrittenTakesBack(c, key) ==
  IF key \in DOMAIN c.cache
  THEN removeEntry(c, key)
  ELSE IF backPanics(c.hl)
       THEN [c EXCEPT !.err = ErrNotFound]
       ELSE [removeEntry(c, back(c.hl)) EXCEPT !.err = ErrNotFound]

DeleteHandwritten(c, key) ==
  IF key \in DOMAIN c.cache
  THEN removeEntry(c, key)
  ELSE [c EXCEPT !.err = ErrNotFound]

\* -------------------------------------------------------------- bookkeeping
NoRef == [set |-> FALSE, value |-> Nil, deadline |-> Nil]

NoRun == [ok |-> FALSE, keys |-> <<>>]

InSeq(s, x) == \E i \in 1..Len(s) : s[i] = x

Forget(s, key) == SelectSeq(s, LAMBDA x : x # key)

\* The reference order: recent lists the keys by the index of their last
\* touch (a Set of the key, or a Get that returned its value), the oldest
\* first; a new key on a full reference takes the place of the oldest.
Stamped(s, key) == Append(Forget(s, key), key)

StampedNew(s, key) ==
  IF Len(s) >= maxSize /\ s # <<>> THEN Append(Tail(s), key) ELSE Append(s, key)

\* the calls of main up to the eviction it comments on, as <<method, key>>
Scenario == << <<"Set", 1>>, <<"Set", 2>>, <<"Set", 3>>, <<"Get", 1>>, <<"Set", 4>> >>

Off == Len(Scenario) + 1

\* scen counts the calls made since construction while they are exactly the
\* calls of Scenario, each returning without error; any other call ends it.
Follow(op, key, r) ==
  IF /\ scen < Len(Scenario)
     /\ Scenario[scen + 1] = <<op, key>>
     /\ ~r.panic
     /\ r.err = ErrNil
  THEN scen + 1
  ELSE Off

\* in place of the entry a call evicted, when it evicted none
NoEntry == [value |-> Nil, ttl |-> Nil]

\* What the caller and an observer see of a call: its arguments, whether the
\* key was in the map when it started (present), what ref held for the key
\* then (was), its results, the lines it printed, which of them it had
\* printed when it inserted a new entry, and the entry it evicted (gone).
Call(op, key, value, ttl, r) ==
  [op |-> op, key |-> key, value |-> value, ttl |-> ttl,
   present |-> key \in DOMAIN cache, was |-> ref[key],
   err |-> IF r.panic THEN "panic" ELSE r.err,
   ret |-> r.ret, evicted |-> r.evicted, out |-> r.out,
   inserted |-> r.inserted,
   gone |-> IF r.evicted \in DOMAIN cache THEN cache[r.evicted] ELSE NoEntry]

NoCall(op) ==
  [op |-> op, key |-> Nil, value |-> Nil, ttl |-> Nil,
   present |-> FALSE, was |-> NoRef,
   err |-> ErrNil, ret |-> Nil, evicted |-> Nil, out |-> <<>>,
   inserted |-> NotInserted, gone |-> NoEntry]

\* The effect of a finished call on the program's state.
Commit(r) ==
  /\ panicked' = r.panic
  /\ IF r.panic
     THEN UNCHANGED <<cache, lruList, hl>>
     ELSE /\ cache' = r.cache
          /\ lruList' = r.lruList
          /\ hl' = r.hl
  /\ UNCHANGED <<impl, maxSize, now>>

\* ----------------------------------------------------------------- actions
DoSet(key, value, ttl) ==
  LET r == IF impl = "container"
           THEN SetContainer(Entering, key, value, ttl)
           ELSE SetHandwritten(Entering, key, value, ttl)
  IN  /\ ~panicked
      /\ Commit(r)
      /\ last' = Call("Set", key, value, ttl, r)
      /\ ref' = IF r.panic THEN ref
                ELSE [k \in AllKeys |->
                        IF k = key
                        THEN [set |-> TRUE, value |-> value, deadline |-> now + ttl]
                        ELSE IF k = r.evicted THEN NoRef ELSE ref[k]]
      /\ run' = IF run.ok /\ ~InSeq(run.keys, key) /\ Len(run.keys) <= maxSize
                THEN [run EXCEPT !.keys = Append(@, key)]
                ELSE NoRun
      /\ scen' = Follow("Set", key, r)
      /\ recent' = IF r.panic THEN recent
                   ELSE IF InSeq(recent, key) THEN Stamped(recent, key)
                   ELSE StampedNew(recent, key)

DoGet(key) ==
  LET r == IF impl = "container"
           THEN GetContainer(Entering, key)
           ELSE GetHandwritten(Entering, key)
  IN  /\ ~panicked
      /\ Commit(r)
      /\ last' = Call("Get", key, Nil, Nil, r)
      /\ ref' = IF ~r.panic /\ r.err = ErrNotFound
                THEN [ref EXCEPT ![key] = NoRef] ELSE ref
      /\ run' = NoRun
      /\ scen' = Follow("Get", key, r)
      /\ recent' = IF r.panic THEN recent
                   ELSE IF r.err = ErrNil THEN Stamped(recent, key)
                   ELSE Forget(recent, key)

DoDelete(key) ==
  LET r == IF impl = "container"
           THEN DeleteContainer(Entering, key)
           ELSE DeleteHandwritten(Entering, key)
  IN  /\ ~panicked
      /\ Commit(r)
      /\ last' = Call("Delete", key, Nil, Nil, r)
      /\ ref' = IF ~r.panic /\ r.err = ErrNil
                THEN [ref EXCEPT ![key] = NoRef] ELSE ref
      /\ run' = NoRun
      /\ scen' = Follow("Delete", key, r)
      /\ recent' = IF ~r.panic /\ r.err = ErrNil THEN Forget(recent, key) ELSE recent

Set(key, value, ttl) == DoSet(key, value, ttl) /\ UNCHANGED <<pc, lock, th, wg>>

Get(key) == DoGet(key) /\ UNCHANGED <<pc, lock, th, wg>>

Delete(key) == DoDelete(key) /\ UNCHANGED <<pc, lock, th, wg>>

\* time passes between calls
Tick(limit) ==
  /\ ~panicked
  /\ now < limit
  /\ now' = now + 1
  /\ last' = NoCall("Tick")
  /\ UNCHANGED <<impl, maxSize, cache, lruList, hl, panicked, ref, run, scen, pc,
                 recent, lock, th, wg>>

\* main of cache.go: the calls it makes on the in-memory cache, in order
DemoScript ==
  << [op |-> "Set", key |-> 1, value |-> 10, ttl |-> FiveMinutes],
     [op |-> "Set", key |-> 2, value |-> 20, ttl |-> FiveMinutes],
     [op |-> "Set", key |-> 3, value |-> 30, ttl |-> FiveMinutes],
     [op |-> "Get", key |-> 1],
     [op |-> "Set", key |-> 4, value |-> 40, ttl |-> FiveMinutes],
     [op |-> "Get", key |-> 2],
     [op |-> "Delete", key |-> 3],
     [op |-> "Get", key |-> 3],
     [op |-> "Set", key |-> 1, value |-> 100, ttl |-> FiveMinutes],
     [op |-> "Get", key |-> 1] >>

MainStep ==
  /\ pc \in 1..Len(DemoScript)
  /\ LET s == DemoScript[pc]
     IN  CASE s.op = "Set" -> DoSet(s.key, s.value, s.ttl)
           [] s.op = "Get" -> DoGet(s.key)
           [] s.op = "Delete" -> DoDelete(s.key)
  /\ pc' = pc + 1
  /\ UNCHANGED <<lock, th, wg>>

\* -------------------------------------------------------------- goroutines
\* A goroutine t in a call of Set, Get or Delete is at one of
\*   "lock"    about to run c.lock.Lock()
\*   "order"   holding the lock, about to write the ordering structure
\*   "map"     about to write the map
\*   "unlock"  at the return statement: the deferred c.lock.Unlock() runs
\*   "return"  handing (value, error) to its caller
\* and at "idle" outside any call.  async tells the call was started by
\* AsyncSet or AsyncDelete (go func() { _ = c.Set(...) }()), runs counts the
\* times the method body ran for this call, r is the outcome of the body.  A
\* goroutine started for the Redis cache is at "remote": it never touches
\* the in-memory cache.
Idle ==
  [pc |-> "idle", op |-> Nil, key |-> Nil, value |-> Nil, ttl |-> Nil,
   async |-> FALSE, runs |-> 0, r |-> Nil]

Begin(t, op, key, value, ttl, async) ==
  th' = [th EXCEPT ![t] = [pc |-> "lock", op |-> op, key |-> key,
                           value |-> value, ttl |-> ttl, async |-> async,
                           runs |-> 0, r |-> Nil]]

Outside == <<impl, maxSize, now, cache, lruList, hl, panicked, last, ref, run,
             scen, recent, lock>>

\* a caller enters Set, Get or Delete on goroutine t
CallSet(t, key, value, ttl) ==
  /\ ~panicked /\ th[t].pc = "idle"
  /\ Begin(t, "Set", key, value, ttl, FALSE)
  /\ UNCHANGED <<Outside, pc, wg>>

CallGet(t, key) ==
  /\ ~panicked /\ th[t].pc = "idle"
  /\ Begin(t, "Get", key, Nil, Nil, FALSE)
  /\ UNCHANGED <<Outside, pc, wg>>

CallDelete(t, key) ==
  /\ ~panicked /\ th[t].pc = "idle"
  /\ Begin(t, "Delete", key, Nil, Nil, FALSE)
  /\ UNCHANGED <<Outside, pc, wg>>

\* AsyncSet and AsyncDelete start goroutine t and return
AsyncSet(t, key, value, ttl) ==
  /\ ~panicked /\ th[t].pc = "idle"
  /\ Begin(t, "Set", key, value, ttl, TRUE)
  /\ UNCHANGED <<Outside, pc, wg>>

AsyncDelete(t, key) ==
  /\ ~panicked /\ th[t].pc = "idle"
  /\ Begin(t, "Delete", key, Nil, Nil, TRUE)
  /\ UNCHANGED <<Outside, pc, wg>>

\* mutant: Lock returns whoever holds the mutex
LockWithoutWaiting(t) ==
  /\ ~panicked /\ th[t].pc = "lock"
  /\ lock' = t
  /\ th' = [th EXCEPT ![t].pc = "order"]
  /\ UNCHANGED <<impl, maxSize, now, cache, lruList, hl, panicked, last, ref,
                 run, scen, recent, pc, wg>>

\* mutant: the mutex serves the goroutines in the order they were started
LockInOrder(t) ==
  /\ ~panicked /\ th[t].pc = "lock"
  /\ lock = Nil
  /\ \A u \in AllThreads : u < t => th[u].pc # "lock"
  /\ lock' = t
  /\ th' = [th EXCEPT ![t].pc = "order"]
  /\ UNCHANGED <<impl, maxSize, now, cache, lruList, hl, panicked, last, ref,
                 run, scen, recent, pc, wg>>

\* c.lock.Lock(): blocks while another goroutine holds the mutex
Lock(t) ==
  /\ ~panicked /\ th[t].pc = "lock"
  /\ lock = Nil
  /\ lock' = t
  /\ th' = [th EXCEPT ![t].pc = "order"]
  /\ UNCHANGED <<impl, maxSize, now, cache, lruList, hl, panicked, last, ref,
                 run, scen, recent, pc, wg>>

\* what the body of the method makes of the cache as it finds it
Body(x) ==
  CASE x.op = "Set" ->
         IF impl = "container"
         THEN SetContainer(Entering, x.key, x.value, x.ttl)
         ELSE SetHandwritten(Entering, x.key, x.value, x.ttl)
    [] x.op = "Get" ->
         IF impl = "container"
         THEN GetContainer(Entering, x.key)
         ELSE GetHandwritten(Entering, x.key)
    [] x.op = "Delete" ->
         IF impl = "container"
         THEN DeleteContainer(Entering, x.key)
         ELSE DeleteHandwritten(Entering, x.key)

\* the statements of the body that write the ordering structure
WriteOrder(t) ==
  /\ ~panicked /\ th[t].pc = "order"
  /\ LET r == Body(th[t])
     IN  /\ panicked' = r.panic
         /\ lruList' = IF r.panic THEN lruList ELSE r.lruList
         /\ hl' = IF r.panic THEN hl ELSE r.hl
         /\ th' = [th EXCEPT ![t].pc = "map", ![t].r = r, ![t].runs = @ + 1]
  /\ UNCHANGED <<impl, maxSize, now, cache, last, ref, run, scen, recent, lock,
                 pc, wg>>

\* the statements of the body that write the map and its entries
WriteMap(t) ==
  /\ ~panicked /\ th[t].pc = "map"
  /\ cache' = th[t].r.cache
  /\ th' = [th EXCEPT ![t].pc = "unlock"]
  /\ UNCHANGED <<impl, maxSize, now, lruList, hl, panicked, last, ref, run, scen,
                 recent, lock, pc, wg>>

\* where t is once the deferred Unlock has run: a goroutine started by
\* AsyncSet or AsyncDelete drops the result and ends
Returning(t) ==
  IF th[t].async THEN [th EXCEPT ![t] = Idle] ELSE [th EXCEPT ![t].pc = "return"]

\* mutant: an error return leaves the method without unlocking
UnlockUnlessError(t) ==
  /\ ~panicked /\ th[t].pc = "unlock"
  /\ lock' = IF th[t].r.err = ErrNil THEN Nil ELSE lock
  /\ th' = Returning(t)
  /\ UNCHANGED <<impl, maxSize, now, cache, lruList, hl, panicked, last, ref,
                 run, scen, recent, pc, wg>>

\* mutant: the goroutine of an asynchronous call hands its result back
UnlockKeepsResult(t) ==
  /\ ~panicked /\ th[t].pc = "unlock"
  /\ lock' = Nil
  /\ th' = [th EXCEPT ![t].pc = "return"]
  /\ UNCHANGED <<impl, maxSize, now, cache, lruList, hl, panicked, last, ref,
                 run, scen, recent, pc, wg>>

\* defer c.lock.Unlock(), on every return of the method
Unlock(t) ==
  /\ ~panicked /\ th[t].pc = "unlock"
  /\ lock' = Nil
  /\ th' = Returning(t)
  /\ UNCHANGED <<impl, maxSize, now, cache, lruList, hl, panicked, last, ref,
                 run, scen, recent, pc, wg>>

\* the caller has the result
Return(t) ==
  /\ ~panicked /\ th[t].pc = "return"
  /\ th' = [th EXCEPT ![t] = Idle]
  /\ UNCHANGED <<Outside, pc, wg>>

\* a step of goroutine t inside a call
Run(t) == Lock(t) \/ WriteOrder(t) \/ WriteMap(t) \/ Unlock(t)

\* the goroutine of RedisCache.AsyncSet: its Set goes to the Redis server
Remote(t) ==
  /\ ~panicked /\ th[t].pc = "remote"
  /\ th' = [th EXCEPT ![t] = Idle]
  /\ UNCHANGED <<Outside, pc, wg>>

\* The statement at pc of a main S, run by the goroutine Main.  Set, Get and
\* Delete enter the method, and main moves on when it has returned;
\* AsyncSet and AsyncDelete start the goroutine g and return; wg.Add(n) adds
\* n to the counter; wg.Wait() returns when the counter is 0; the calls on
\* the Redis cache leave the in-memory cache alone.
Exec(S) ==
  /\ ~panicked /\ pc \in 1..Len(S) /\ th[Main].pc = "idle"
  /\ LET i == S[pc]
     IN  CASE i.op \in {"Set", "Get", "Delete"} ->
                /\ Begin(Main, i.op, i.key, i.value, i.ttl, FALSE)
                /\ UNCHANGED <<pc, wg>>
           [] i.op = "AsyncSet" ->
                /\ th[i.g].pc = "idle"
                /\ Begin(i.g, "Set", i.key, i.value, i.ttl, TRUE)
                /\ pc' = pc + 1 /\ UNCHANGED wg
           [] i.op = "AsyncDelete" ->
                /\ th[i.g].pc = "idle"
                /\ Begin(i.g, "Delete", i.key, Nil, Nil, TRUE)
                /\ pc' = pc + 1 /\ UNCHANGED wg
           [] i.op = "wg.Add" ->
                /\ wg' = wg + i.n
                /\ pc' = pc + 1 /\ UNCHANGED th
           [] i.op = "wg.Wait" ->
                /\ wg = 0
                /\ pc' = pc + 1 /\ UNCHANGED <<th, wg>>
           [] i.op = "redis" ->
                /\ pc' = pc + 1 /\ UNCHANGED <<th, wg>>
           [] i.op = "redis.AsyncSet" ->
                /\ th[i.g].pc = "idle"
                /\ th' = [th EXCEPT ![i.g] = [Idle EXCEPT !.pc = "remote",
                                                         !.async = TRUE]]
                /\ pc' = pc + 1 /\ UNCHANGED wg
  /\ UNCHANGED Outside

\* Set, Get or Delete has returned to main
MainReturn ==
  /\ ~panicked /\ th[Main].pc = "return"
  /\ th' = [th EXCEPT ![Main] = Idle]
  /\ pc' = pc + 1
  /\ UNCHANGED <<Outside, wg>>

\* the main with the WaitGroup; keys 1, 2, 3 are "key1", "key2", "asyncKey1"
WaitScript ==
  << [op |-> "Set", key |-> 1, value |-> 10, ttl |-> FiveMinutes],
     [op |-> "Set", key |-> 2, value |-> 20, ttl |-> FiveMinutes],
     [op |-> "redis"],
     [op |-> "wg.Add", n |-> 2],
     [op |-> "AsyncSet", g |-> 2, key |-> 3, value |-> 100, ttl |-> TenMinutes],
     [op |-> "AsyncDelete", g |-> 3, key |-> 2],
     [op |-> "wg.Add", n |-> 1],
     [op |-> "redis.AsyncSet", g |-> 4],
     [op |-> "wg.Wait"],
     [op |-> "Get", key |-> 1, value |-> Nil, ttl |-> Nil],
     [op |-> "redis"],
     [op |-> "Delete", key |-> 1, value |-> Nil, ttl |-> Nil],
     [op |-> "redis"] >>

\* where main stands at wg.Wait()
AtWait == pc \in 1..Len(WaitScript) /\ WaitScript[pc].op = "wg.Wait"

WaitMain == Exec(WaitScript)

\* A caller that issues AsyncSet(1, 10) and then AsyncDelete(1) on a cache
\* without key 1, and AsyncSet(2, 10) and then Get(2) on a cache without
\* key 2.
RaceScript ==
  << [op |-> "AsyncSet", g |-> 2, key |-> 1, value |-> 10, ttl |-> FiveMinutes],
     [op |-> "AsyncDelete", g |-> 3, key |-> 1],
     [op |-> "AsyncSet", g |-> 4, key |-> 2, value |-> 10, ttl |-> FiveMinutes],
     [op |-> "Get", key |-> 2, value |-> Nil, ttl |-> Nil] >>

RaceMain == Exec(RaceScript)

\* ----------------------------------------------------------- specifications
InitCache ==
  /\ impl \in Impls
  /\ now = 0
  /\ cache = [k \in {} |-> Nil]
  /\ lruList = <<>>
  /\ hl = EmptyList
  /\ panicked = FALSE
  /\ last = NoCall("init")
  /\ ref = [k \in AllKeys |-> NoRef]
  /\ run = [ok |-> TRUE, keys |-> <<>>]
  /\ scen = 0
  /\ recent = <<>>
  /\ lock = Nil
  /\ th = [t \in AllThreads |-> Idle]
  /\ wg = 0

\* Any caller of a cache of capacity 1..MaxCap, with the clock running: the
\* expiration side of the cache.
Init ==
  /\ InitCache
  /\ maxSize \in 1..MaxCap
  /\ pc = 0

Next ==
  \/ \E key \in Keys, value \in Values, ttl \in TTLs : Set(key, value, ttl)
  \/ \E key \in Keys : Get(key)
  \/ \E key \in Keys : Delete(key)
  \/ Tick(MaxTime)

Spec == Init /\ [][Next]_vars

\* Any caller of a cache of capacity up to the 3 of main, over the four keys
\* of main, at one instant: a TTL of 0 gives an entry that is already
\* expired, a TTL of five minutes one that is live.  The ordering side of the
\* cache: three entries make the list's head, interior and tail cases.
InitLRU ==
  /\ InitCache
  /\ maxSize \in 1..DemoCap
  /\ pc = 0

NextLRU ==
  \/ \E key \in DemoKeys, value \in Values, ttl \in DemoTTLs : Set(key, value, ttl)
  \/ \E key \in DemoKeys : Get(key)
  \/ \E key \in DemoKeys : Delete(key)

SpecLRU == InitLRU /\ [][NextLRU]_vars

\* main of cache.go, with the clock free to advance between its calls
InitDemo ==
  /\ InitCache
  /\ maxSize = DemoCap
  /\ pc = 1

NextDemo ==
  \/ MainStep
  \/ Tick(DemoMaxTime)

SpecDemo == InitDemo /\ [][NextDemo]_vars

\* Goroutines that call Set, Get and Delete, directly or through AsyncSet and
\* AsyncDelete, at any time and in any interleaving of their steps.
InitConc ==
  /\ InitCache
  /\ maxSize \in 1..MaxCap
  /\ pc = 0

NextConc ==
  \/ \E t \in Threads, key \in Keys, value \in ConcValues, ttl \in DemoTTLs :
        CallSet(t, key, value, ttl)
  \/ \E t \in Threads, key \in Keys : CallGet(t, key)
  \/ \E t \in Threads, key \in Keys : CallDelete(t, key)
  \/ \E t \in Threads, key \in Keys, value \in ConcValues, ttl \in DemoTTLs :
        AsyncSet(t, key, value, ttl)
  \/ \E t \in Threads, key \in Keys : AsyncDelete(t, key)
  \/ \E t \in Threads : Lock(t)
  \/ \E t \in Threads : WriteOrder(t)
  \/ \E t \in Threads : WriteMap(t)
  \/ \E t \in Threads : Unlock(t)
  \/ \E t \in Threads : Return(t)

SpecConc == InitConc /\ [][NextConc]_vars

\* The main with the WaitGroup and the goroutines it starts.
InitWait ==
  /\ InitCache
  /\ maxSize = DemoCap
  /\ pc = 1

NextWait ==
  \/ WaitMain
  \/ MainReturn
  \/ \E t \in WaitThreads : Lock(t)
  \/ \E t \in WaitThreads : WriteOrder(t)
  \/ \E t \in WaitThreads : WriteMap(t)
  \/ \E t \in WaitThreads : Unlock(t)
  \/ \E t \in WaitThreads : Remote(t)

SpecWait == InitWait /\ [][NextWait]_vars

\* A caller of the asynchronous methods and the goroutines they start, on a
\* cache with room for both keys.
InitRace ==
  /\ InitCache
  /\ maxSize \in 2..DemoCap
  /\ pc = 1

NextRace ==
  \/ RaceMain
  \/ MainReturn
  \/ \E t \in WaitThreads : Lock(t)
  \/ \E t \in WaitThreads : WriteOrder(t)
  \/ \E t \in WaitThreads : WriteMap(t)
  \/ \E t \in WaitThreads : Unlock(t)

SpecRace == InitRace /\ [][NextRace]_vars

\* The same under fair scheduling.  The Go scheduler preempts, so a goroutine
\* that can take a step takes it (weak fairness of the steps that do not
\* block).  sync.Mutex hands the lock to a goroutine that has waited for it
\* (its starvation mode), so a goroutine at Lock gets the lock if it is
\* released again and again (strong fairness of Lock).  Nothing obliges a
\* caller to make a call.
Fairness ==
  \A t \in Threads :
    /\ WF_vars(WriteOrder(t) \/ WriteMap(t) \/ Unlock(t) \/ Return(t))
    /\ SF_vars(Lock(t))

SpecConcFair == InitConc /\ [][NextConc]_vars /\ Fairness

\* -------------------------------------------------------------- observers
\* The recency order as the list presents it, most recently used first: the
\* container list itself, or the nodes met from head along next.
RECURSIVE Walk(_, _, _)
Walk(l, p, n) ==
  IF ~IsNode(p) \/ n = 0 THEN <<>> ELSE <<p>> \o Walk(l, l.next[p], n - 1)

Order ==
  IF impl = "container"
  THEN lruList
  ELSE Walk(hl, hl.head, Cardinality(AllKeys) + 1)

Range(s) == {s[i] : i \in 1..Len(s)}

Without(s, key) == SelectSeq(s, LAMBDA x : x # key)

Count == Cardinality(DOMAIN cache)

Expired(k) == k \in DOMAIN cache /\ cache[k].ttl <= now

\* ---------------------------------------------------- the ordering structure
\* The list on its own, driven through its four methods as InMemoryCache
\* drives it: pushFront of an entry that is not in the list, moveToFront and
\* remove of one that is, back at any time.
Index(s, x) == IF InSeq(s, x) THEN CHOOSE i \in 1..Len(s) : s[i] = x ELSE 0

\* the nodes met from tail along prev
RECURSIVE WalkBack(_, _, _)
WalkBack(l, p, n) ==
  IF ~IsNode(p) \/ n = 0 THEN <<>> ELSE <<p>> \o WalkBack(l, l.prev[p], n - 1)

Backward == WalkBack(hl, hl.tail, Cardinality(AllKeys) + 1)

Reverse(s) == [i \in 1..Len(s) |-> s[Len(s) + 1 - i]]

\* a call of a method of the list: at is the place ent had in the order
StoreCall(op, ent, ret, panic) ==
  [op |-> op, key |-> ent, at |-> Index(Order, ent), ret |-> ret,
   err |-> IF panic THEN "panic" ELSE ErrNil]

StoreStep(op, ent, ret, panic, l1, h1) ==
  /\ ~panicked
  /\ panicked' = panic
  /\ lruList' = IF panic \/ impl # "container" THEN lruList ELSE l1
  /\ hl' = IF panic \/ impl # "handwritten" THEN hl ELSE h1
  /\ last' = StoreCall(op, ent, ret, panic)
  /\ UNCHANGED <<impl, maxSize, now, cache, ref, run, scen, pc, recent,
                 lock, th, wg>>

StorePushFront(ent) ==
  /\ ent \notin Range(Order)
  /\ StoreStep("pushFront", ent, Nil, FALSE,
               PushFront(lruList, ent), pushFront(hl, ent))

StoreMoveToFront(ent) ==
  /\ ent \in Range(Order)
  /\ StoreStep("moveToFront", ent, Nil,
               impl = "handwritten" /\ moveToFrontPanics(hl, ent),
               MoveToFront(lruList, ent), moveToFront(hl, ent))

StoreRemove(ent) ==
  /\ ent \in Range(Order)
  /\ StoreStep("remove", ent, Nil,
               impl = "handwritten" /\ removePanics(hl, ent),
               Remove(lruList, ent), remove(hl, ent))

StoreBack ==
  /\ ~panicked
  /\ LET panic == impl = "handwritten" /\ backPanics(hl)
     IN  StoreStep("back", Nil,
                   IF impl = "container" THEN Back(lruList)
                   ELSE IF panic THEN Nil ELSE back(hl),
                   panic, lruList, hl)

InitStore ==
  /\ InitCache
  /\ maxSize = DemoCap
  /\ pc = 0

NextStore ==
  \/ \E ent \in DemoKeys : StorePushFront(ent)
  \/ \E ent \in DemoKeys : StoreMoveToFront(ent)
  \/ \E ent \in DemoKeys : StoreRemove(ent)
  \/ StoreBack

SpecStore == InitStore /\ [][NextStore]_vars

\* ------------------------------------------------------------------ claims

\* C1 -- Capacity invariant: the key map never holds more than maxSize
\* entries; a Set of a key not in the map, when the map holds maxSize entries,
\* succeeds, removes the entry at the back of the order and then has the new
\* key at the front, in front of the entries that remain.
C1_Capacity ==
  /\ [](Count <= maxSize)
  /\ [][(last'.op = "Set" /\ last'.key \notin DOMAIN cache /\ Count = maxSize)
          => /\ last'.err = ErrNil
             /\ last'.evicted = Back(Order)
             /\ last'.evicted \in DOMAIN cache
             /\ DOMAIN cache' = (DOMAIN cache \ {last'.evicted}) \cup {last'.key}
             /\ Order' = <<last'.key>> \o Without(Order, last'.evicted)]_vars

\* a Set has just evicted from a full cache of three entries
C1_Witness ==
  /\ last.op = "Set" /\ last.evicted # Nil
  /\ maxSize = DemoCap /\ Count = maxSize

C3_LRUCorrectness ==
  LET n == Len(run.keys)
  IN  run.ok =>
        IF n <= maxSize
        THEN /\ DOMAIN cache = Range(run.keys)
             /\ last.op = "Set" => last.evicted = Nil
        ELSE /\ last.op = "Set" => last.evicted = run.keys[1]
             /\ DOMAIN cache = {run.keys[i] : i \in 2..n}
             /\ Count = maxSize

\* four Sets of distinct keys have run on a cache of capacity three
C3_Witness == run.ok /\ Len(run.keys) = maxSize + 1 /\ maxSize = DemoCap

\* a Get that hit, or a Set on a key that was in the map
Touch(c) == c.op \in {"Get", "Set"} /\ c.present /\ c.err = ErrNil

\* C4 -- Recency refresh: a Get that hits k, or a Set on a present k, leaves k
\* at the front of the order; if the call that follows is a Set of a new key on
\* a full cache of at least two entries, it does not evict k; and after
\* Set(1), Set(2), Set(3), Get(1), Set(4) on a cache of capacity 3 the key
\* evicted is 2, and 1, 3, 4 remain.
C4_RecencyRefresh ==
  /\ [][Touch(last') => Order'[1] = last'.key]_vars
  /\ [][(Touch(last) /\ Count >= 2 /\ Count = maxSize
           /\ last'.op = "Set" /\ ~last'.present)
          => last'.evicted # last.key /\ last.key \in DOMAIN cache']_vars
  /\ [](scen = Len(Scenario) /\ maxSize = DemoCap
          => last.evicted = 2 /\ DOMAIN cache = {1, 3, 4})

\* the five calls of the scenario have run on a cache of capacity 3
C4_Witness == scen = Len(Scenario) /\ maxSize = DemoCap /\ last.evicted = 2

\* C5 -- Expiration correctness: a Get(k) that follows a Set(k, v, d) made at
\* time t, with no Set, Delete or eviction of k in between, returns v when
\* now < t + d and fails with NotFound when now >= t + d (so at once when
\* d <= 0); a Get of a key with no such Set fails with NotFound.
C5_Expiration ==
  last.op = "Get" =>
    IF last.was.set /\ now < last.was.deadline
    THEN last.err = ErrNil /\ last.ret = last.was.value
    ELSE last.err = ErrNotFound /\ last.ret = Nil

\* a Get at the very instant t + d, reached by the clock, reports NotFound
C5_Witness ==
  /\ last.op = "Get" /\ last.was.set /\ last.err = ErrNotFound
  /\ last.was.deadline = now /\ now = MaxTime

\* C6 -- Lazy expiry removal: a Get on a key that is in the map with an
\* expiration not after now fails with NotFound and removes exactly that
\* entry from the map and from the order, the other entries keeping their
\* order; and an expired entry leaves the map only by a Get or Delete of its
\* key or by an eviction.
C6_LazyExpiry ==
  /\ [][(last'.op = "Get" /\ Expired(last'.key))
          => /\ last'.err = ErrNotFound
             /\ cache' = Drop(cache, last'.key)
             /\ Order' = Without(Order, last'.key)
             /\ Count' = Count - 1]_vars
  /\ [][\A k \in DOMAIN cache \ DOMAIN cache' :
          Expired(k) => \/ last'.key = k /\ last'.op \in {"Get", "Delete"}
                        \/ last'.evicted = k]_vars

\* a Get removed an expired entry out of three, and another expired entry
\* that no Get has touched is still there
C6_Witness ==
  /\ last.op = "Get" /\ last.present /\ last.err = ErrNotFound
  /\ Count = 2 /\ \E k \in DOMAIN cache : Expired(k)

\* C7 -- Deletion: Delete(k) of a key not in the map fails with NotFound and
\* changes nothing; Delete(k) of a key in the map succeeds and removes k from
\* the map and from the order; a Delete(k) right after a successful Delete(k)
\* fails with NotFound.
C7_Deletion ==
  /\ [][last'.op = "Delete"
          => IF last'.key \in DOMAIN cache
             THEN /\ last'.err = ErrNil
                  /\ cache' = Drop(cache, last'.key)
                  /\ Order' = Without(Order, last'.key)
             ELSE /\ last'.err = ErrNotFound
                  /\ cache' = cache
                  /\ Order' = Order]_vars
  /\ [][(last.op = "Delete" /\ last.err = ErrNil
           /\ last'.op = "Delete" /\ last'.key = last.key)
          => last'.err = ErrNotFound]_vars

\* a Delete took one of three entries out
C7_Witness ==
  /\ last.op = "Delete" /\ last.err = ErrNil /\ last.present
  /\ maxSize = DemoCap /\ Count = 2

\* the key of the call was in the map, its entry expired
ExpiredAtCall(c) == c.present /\ c.was.set /\ c.was.deadline <= now

\* C8 as claimed -- a Get and a Delete of a key whose entry has expired but is
\* still in the map both report NotFound, as for a key that was never set.
C8_ExpiredLikeAbsent ==
  (last.op \in {"Get", "Delete"} /\ ExpiredAtCall(last))
     => last.err = ErrNotFound

\* C8 as amended -- a Get of a key whose entry has expired but is still in the
\* map reports NotFound and returns nothing, as for a key not in the map;
\* a Delete does not look at the expiration: it reports NotFound exactly when
\* the key is not in the map, and succeeds on an expired entry.
C8_ExpiredGetLikeAbsent ==
  /\ (last.op = "Get" /\ (~last.present \/ ExpiredAtCall(last)))
        => last.err = ErrNotFound /\ last.ret = Nil
  /\ last.op = "Delete" => (last.err = ErrNotFound <=> ~last.present)

\* a Delete of an entry that the clock had expired succeeded
C8_Witness ==
  /\ last.op = "Delete" /\ ExpiredAtCall(last) /\ last.err = ErrNil
  /\ last.was.deadline > 0

\* C9 -- Update semantics: a Set on a key that is in the map succeeds, leaves
\* the entry with the new value and the expiration now + ttl, keeps the set of
\* keys and every other entry as they were, and evicts nothing, also when the
\* map is full.
C9_Update ==
  [][(last'.op = "Set" /\ last'.key \in DOMAIN cache)
       => /\ last'.err = ErrNil
          /\ cache'[last'.key] = [value |-> last'.value, ttl |-> now + last'.ttl]
          /\ DOMAIN cache' = DOMAIN cache
          /\ \A k \in DOMAIN cache \ {last'.key} : cache'[k] = cache[k]
          /\ last'.evicted = Nil]_vars

\* a Set changed both the value and the expiration of a key of a full cache,
\* after the clock had advanced
C9_Witness ==
  /\ last.op = "Set" /\ last.present /\ Count = maxSize /\ now > 0
  /\ last.was.value # last.value /\ last.was.deadline # now + last.ttl

\* C10 -- Read-your-writes: a Get(k) that succeeds returns the value of the
\* latest Set(k, ...), and there has been no Delete of k, no eviction of k and
\* no removal of k as expired since that Set.
C10_ReadYourWrites ==
  (last.op = "Get" /\ last.err = ErrNil)
     => last.was.set /\ last.ret = last.was.value

\* a Get returned 100 while another key of the cache holds 10
C10_Witness ==
  /\ last.op = "Get" /\ last.err = ErrNil /\ last.ret = 100
  /\ \E k \in DOMAIN cache : k # last.key /\ cache[k].value = 10

\* C11 -- Set never fails: on a cache of positive capacity, for every key,
\* value and TTL and in every state (empty, partly filled, full), Set returns
\* no error and does not abort, and the key is in the map when it returns.
C11_SetNeverFails ==
  last.op = "Set"
     => /\ last.err = ErrNil
        /\ ~panicked
        /\ last.key \in DOMAIN cache

\* a Set of a new key on the full hand-written copy, which evicted through
\* back and remove
C11_Witness ==
  /\ impl = "handwritten" /\ last.op = "Set" /\ ~last.present
  /\ last.evicted # Nil /\ maxSize = DemoCap /\ last.err = ErrNil

\* the index of the last touch of k, among the keys of the reference
Stamp(k) == CHOOSE i \in 1..Len(recent) : recent[i] = k

\* C17 -- Eviction victim: the reference stamps the keys of the map, each
\* once, so that the stamps order them strictly; and the key a Set evicts for
\* want of room is the one key whose stamp is older than that of every other
\* key in the map, the one the reference evicts.
C17_VictimIsLeastRecent ==
  /\ [](/\ Range(recent) = DOMAIN cache
        /\ Len(recent) = Count)
  /\ [][(last'.op = "Set" /\ last'.evicted # Nil)
          => /\ recent # <<>>
             /\ last'.evicted = Head(recent)
             /\ \A k \in DOMAIN cache \ {last'.evicted} :
                   Stamp(last'.evicted) < Stamp(k)
             /\ recent' = Append(Tail(recent), last'.key)]_vars

\* a Set took the second key inserted out of a full cache of three, the
\* first having been touched since
C17_Witness ==
  /\ last.op = "Set" /\ last.evicted # Nil /\ maxSize = DemoCap
  /\ Len(recent) = DemoCap /\ scen = Len(Scenario)

\* C18 -- Entry life cycle: a key leaves the map only by a Delete of that
\* key, by a Get of that key that found it expired, or as the key evicted by
\* a Set of another key, not in the map, on a full map; a key enters the map
\* only by a Set of that key; a Get that returns a value and a Set of a key in
\* the map keep the keys as they are, and a Get or Delete keeps every other
\* key.
C18_LifeCycle ==
  [][/\ \A k \in DOMAIN cache \ DOMAIN cache' :
          \/ last'.op = "Delete" /\ last'.key = k /\ last'.err = ErrNil
          \/ /\ last'.op = "Get" /\ last'.key = k
             /\ last'.err = ErrNotFound /\ Expired(k)
          \/ /\ last'.op = "Set" /\ last'.key # k
             /\ last'.key \notin DOMAIN cache
             /\ Count = maxSize /\ last'.evicted = k
     /\ \A k \in DOMAIN cache' \ DOMAIN cache :
          last'.op = "Set" /\ last'.key = k
     /\ (last'.op = "Get" /\ last'.err = ErrNil) => DOMAIN cache' = DOMAIN cache
     /\ (last'.op = "Set" /\ last'.key \in DOMAIN cache)
          => DOMAIN cache' = DOMAIN cache
     /\ last'.op \in {"Get", "Delete"}
          => DOMAIN cache \ {last'.key} \subseteq DOMAIN cache'
     /\ last'.op \notin {"Set", "Get", "Delete"} => DOMAIN cache' = DOMAIN cache]_vars

\* a Get took an expired key out of a full cache of three and left the two
\* other keys, one of them expired as well
C18_Witness ==
  /\ last.op = "Get" /\ last.present /\ last.err = ErrNotFound
  /\ maxSize = DemoCap /\ Count = 2
  /\ \E k \in DOMAIN cache : Expired(k)

C20_BackOnEmpty ==
  last.op = "back"
     => /\ last.err = ErrNil
        /\ last.ret = IF Order = <<>> THEN Nil ELSE Order[Len(Order)]

\* the goroutines inside the critical section of the cache
Inside == {t \in AllThreads : th[t].pc \in {"order", "map", "unlock"}}

\* C12 -- Serialization: in every interleaving of goroutines that call Set,
\* Get and Delete, directly or through AsyncSet and AsyncDelete, at most one
\* goroutine is between Lock and Unlock, and it is the holder of the lock;
\* the map and the ordering change only in steps of that goroutine, while it
\* holds the lock; the map never holds more than maxSize entries; and in
\* every state except those where the holder stands between its writes to
\* the ordering and its writes to the map, the ordering holds exactly the
\* keys of the map.
C12_Serialization ==
  /\ [](/\ Cardinality(Inside) <= 1
        /\ \A t \in AllThreads : t \in Inside <=> lock = t)
  /\ [][(cache' # cache \/ lruList' # lruList \/ hl' # hl)
          => /\ lock # Nil /\ lock' = lock
             /\ th[lock].pc \in {"order", "map"}
             /\ \A t \in AllThreads \ {lock} : th'[t] = th[t]]_vars
  /\ [](Count <= maxSize)
  /\ []((\A t \in AllThreads : th[t].pc # "map")
          => /\ Range(Order) = DOMAIN cache
             /\ Len(Order) = Count
             /\ impl = "handwritten" => hl.size = Count)

\* a Set that evicts is between its two writes while the goroutine of an
\* AsyncDelete waits for the lock
C12_Witness ==
  \E t, u \in Threads :
    /\ t # u
    /\ th[t].pc = "map" /\ th[t].op = "Set" /\ th[t].r.evicted # Nil
    /\ th[u].pc = "lock" /\ th[u].op = "Delete" /\ th[u].async

\* C13 -- No long-lived blocking: a goroutine that has left Set, Get or
\* Delete, on whatever return path, does not hold the lock; and under fair
\* scheduling every call that was started, by a caller or by AsyncSet or
\* AsyncDelete, gets the lock, runs and returns.
C13_NoBlocking ==
  /\ [](\A t \in Threads : th[t].pc \in {"idle", "lock", "return"} => lock # t)
  /\ [](Inside = {} => lock = Nil)
  /\ \A t \in Threads :
       /\ (th[t].pc = "lock") ~> (th[t].pc = "order")
       /\ (th[t].pc = "order") ~> (th[t].pc \in {"idle", "return"})

\* a Get has found its key expired and is about to unlock, while a Set waits
\* for the lock
C13_Witness ==
  \E t, u \in Threads :
    /\ t # u
    /\ th[t].pc = "unlock" /\ th[t].op = "Get"
    /\ th[t].r.err = ErrNotFound /\ th[t].key \notin DOMAIN cache
    /\ th[t].r.out # <<>>
    /\ th[u].pc = "lock" /\ th[u].op = "Set"

\* C14 -- Fire-and-forget: AsyncSet and AsyncDelete can be called and return
\* whoever holds the lock, and their step touches neither the lock nor the
\* cache; the goroutine they start never hands a result or an error to a
\* caller, also when its Delete finds no key; it runs the body of Set or
\* Delete at most once, has run it once when it ends, and under fair
\* scheduling it does run it.
C14_FireAndForget ==
  /\ [](\A t \in Threads :
          (th[t].pc = "idle" /\ ~panicked)
             => /\ ENABLED AsyncSet(t, 1, 10, FiveMinutes)
                /\ ENABLED AsyncDelete(t, 1))
  /\ [][\A t \in Threads :
          (th[t].pc = "idle" /\ th'[t].async)
             => /\ th'[t].pc = "lock" /\ th'[t].runs = 0
                /\ UNCHANGED <<lock, cache, lruList, hl>>]_vars
  /\ [](\A t \in Threads : th[t].async => th[t].pc # "return" /\ th[t].runs <= 1)
  /\ [][\A t \in Threads :
          (th[t].async /\ th'[t].pc = "idle")
             => /\ th[t].pc = "unlock" /\ th[t].runs = 1
                /\ th'[t] = Idle]_vars
  /\ \A t \in Threads :
       (th[t].async /\ th[t].pc = "lock")
          ~> (th[t].async /\ th[t].pc = "unlock" /\ th[t].runs = 1)

\* the goroutine of an AsyncDelete has found no key and is about to end,
\* while a caller of Get waits for the lock it holds
C14_Witness ==
  \E t, u \in Threads :
    /\ t # u
    /\ th[t].async /\ th[t].op = "Delete" /\ th[t].pc = "unlock"
    /\ th[t].r.err = ErrNotFound /\ th[t].runs = 1
    /\ th[u].pc = "lock" /\ ~th[u].async

\* C16 as claimed -- the main with the WaitGroup waits for the goroutines it
\* started and then goes on: once main is at wg.Wait() and every goroutine
\* it started has ended, Wait can return.
C16_WaitReturns ==
  (AtWait /\ \A t \in WaitThreads \ {Main} : th[t].pc = "idle")
     => ENABLED WaitMain

\* C15 -- No ordering among asynchronous calls.  The caller issues
\* AsyncSet(1, 10) (goroutine 2), then AsyncDelete(1) (goroutine 3), then
\* AsyncSet(2, 10) (goroutine 4), then calls Get(2) itself.  Whenever two of
\* these wait for the free lock, either can take it.  The Delete finds key 1
\* exactly when the Set has ended before it, and once both have ended key 1
\* is absent or present with 10.  The Get returns 10 exactly when the
\* AsyncSet before it has ended, and NotFound exactly when that Set still
\* waits for the lock.
C15_NoOrdering ==
  /\ []((th[2].pc = "lock" /\ th[3].pc = "lock" /\ lock = Nil)
          => ENABLED Lock(2) /\ ENABLED Lock(3))
  /\ []((th[4].pc = "lock" /\ th[Main].pc = "lock" /\ lock = Nil)
          => ENABLED Lock(4) /\ ENABLED Lock(Main))
  /\ [][(th[3].pc = "order" /\ th'[3].pc = "map")
          => /\ th'[3].r.err = ErrNil <=> th[2].pc = "idle"
             /\ th'[3].r.err = ErrNotFound <=> th[2].pc = "lock"]_vars
  /\ []((pc > 2 /\ th[2].pc = "idle" /\ th[3].pc = "idle")
          => (1 \notin DOMAIN cache \/ cache[1].value = 10))
  /\ [][(th[Main].pc = "order" /\ th'[Main].pc = "map")
          => /\ (th'[Main].r.err = ErrNil /\ th'[Main].r.ret = 10)
                  <=> th[4].pc = "idle"
             /\ th'[Main].r.err = ErrNotFound <=> th[4].pc = "lock"]_vars

\* both goroutines for key 1 have ended and the key is there with 10: the
\* Delete issued second ran first; and the Get returns NotFound: it ran
\* before the Set issued before it
C15_Witness ==
  /\ pc = Len(RaceScript) /\ th[Main].pc = "return"
  /\ th[Main].r.err = ErrNotFound
  /\ th[2].pc = "idle" /\ th[3].pc = "idle"
  /\ 1 \in DOMAIN cache /\ cache[1].value = 10

\* the eviction notifications among the lines a call printed
Notices(out) == SelectSeq(out, LAMBDA x : x[1] = "Evicting value")

\* C21 -- Eviction notification: a call evicts exactly when it is a Set of a
\* key that is not in the map, on a full map; a call that evicts prints one
\* line "Evicting value" with the value the evicted entry had, and has printed
\* it when it inserts the new entry; every other call (Delete, Get, also of
\* an expired key, Set of a key in the map, Set of a new key with room left)
\* prints no such line.
C21_EvictionNotice ==
  [][last'.op \in {"Set", "Get", "Delete"}
       => /\ last'.evicted # Nil
               <=> /\ last'.op = "Set" /\ last'.key \notin DOMAIN cache
                   /\ Count >= maxSize
          /\ last'.evicted # Nil
               => /\ last'.evicted \in DOMAIN cache
                  /\ Notices(last'.out)
                       = << <<"Evicting value", cache[last'.evicted].value>> >>
                  /\ last'.inserted.done
                  /\ Notices(last'.inserted.after) = Notices(last'.out)
          /\ last'.evicted = Nil => Notices(last'.out) = <<>>]_vars

\* a Set has evicted the entry with value 100 from a full cache of three
\* whose other entries hold 10
C21_Witness ==
  /\ last.op = "Set" /\ last.evicted # Nil /\ maxSize = DemoCap
  /\ Notices(last.out) = << <<"Evicting value", 100>> >>
  /\ \A k \in DOMAIN cache \ {last.key} : cache[k].value = 10

\* C22 -- Failed lookups leave the cache unchanged: a Get or a Delete of a key
\* that is not in the map returns NotFound (and Get no value), prints nothing,
\* and leaves the map with every entry's value and expiration, and the
\* ordering structure, exactly as they were.
C22_FailedLookup ==
  [][(last'.op \in {"Get", "Delete"} /\ last'.key \notin DOMAIN cache)
       => /\ last'.err = ErrNotFound
          /\ last'.ret = Nil
          /\ last'.out = <<>>
          /\ cache' = cache
          /\ Order' = Order
          /\ lruList' = lruList /\ hl' = hl]_vars

\* a Delete has found no key in a full cache of three, one of whose entries
\* is expired
C22_Witness ==
  /\ last.op = "Delete" /\ ~last.present /\ last.err = ErrNotFound
  /\ maxSize = DemoCap /\ Count = DemoCap
  /\ \E k \in DOMAIN cache : Expired(k)

\* C23 -- A Get hit changes only the recency order: a Get that returns a
\* value leaves the map as it was (the keys, every value, every expiration),
\* keeps the entries of the order and prints nothing.  So every entry of the
\* map carries the value and the expiration now + ttl of the latest Set of
\* its key, however often it was read since, and a Get of the key returns
\* NotFound exactly from that instant on.
C23_GetHitFrame ==
  /\ [][(last'.op = "Get" /\ last'.err = ErrNil)
          => /\ cache' = cache
             /\ Range(Order') = Range(Order) /\ Len(Order') = Len(Order)
             /\ ref' = ref
             /\ last'.out = <<>>]_vars
  /\ [](\A k \in DOMAIN cache :
          /\ ref[k].set
          /\ cache[k] = [value |-> ref[k].value, ttl |-> ref[k].deadline])
  /\ []((last.op = "Get" /\ last.present)
          => /\ last.was.set
             /\ last.err = ErrNotFound <=> last.was.deadline <= now
             /\ last.err = ErrNil <=> last.was.deadline > now)

\* a Get at time 1 has returned the value of an entry set at time 0 with a
\* TTL of 2, and the entry still expires at 2
C23_Witness ==
  /\ last.op = "Get" /\ last.err = ErrNil /\ now = 1
  /\ last.was.deadline = 2
  /\ cache[last.key].ttl = 2

\* C24 -- eviction ignores expiration.  An expired entry that no call has
\* named stays in the map, counts towards the capacity and keeps its place in
\* the order; a Set of a new key on a full cache removes the entry at the back
\* of the order, whatever its deadline and whatever the deadlines of the
\* others; a Set on a key that is present but expired evicts nothing, writes
\* the new value and deadline into the same entry and moves it to the front.
C24_EvictionIgnoresExpiry ==
  /\ [][(last'.op = "Set" /\ last'.key \notin DOMAIN cache /\ Count >= maxSize)
          => /\ last'.evicted = Back(Order)
             /\ last'.gone = cache[Back(Order)]
             /\ DOMAIN cache' = (DOMAIN cache \ {Back(Order)}) \cup {last'.key}
             /\ Order' = <<last'.key>> \o Without(Order, Back(Order))]_vars
  /\ [][(last'.op = "Set" /\ Expired(last'.key))
          => /\ last'.evicted = Nil /\ last'.out = <<>> /\ last'.err = ErrNil
             /\ cache' = [cache EXCEPT ![last'.key] =
                            [value |-> last'.value, ttl |-> now + last'.ttl]]
             /\ Order' = <<last'.key>> \o Without(Order, last'.key)
             /\ last'.ttl > 0 => cache'[last'.key].ttl > now']_vars
  /\ [][\A k \in DOMAIN cache :
           (Expired(k) /\ last'.op \in {"Set", "Get", "Delete"}
              /\ last'.key # k /\ last'.evicted # k)
             => /\ k \in DOMAIN cache' /\ cache'[k] = cache[k]
                /\ Without(Order', last'.key)
                     = Without(Without(Order, last'.key), last'.evicted)]_vars

\* A Set of a new key on a full cache of three has evicted an entry that was
\* still live, while an expired entry stays in the cache.
C24_Witness ==
  /\ last.op = "Set" /\ ~last.present /\ last.evicted # Nil
  /\ maxSize = DemoCap /\ Count = DemoCap
  /\ last.gone.ttl > now
  /\ \E k \in DOMAIN cache \ {last.key} : Expired(k)

====
